---- MODULE Spec2Model ----
(***************************************************************************)
(* Call audit and notification subsystem of b2a-toolkit:                   *)
(*   - the call log store (toolkit/logging.py, ToolLogger) with its        *)
(*     polling tail (watch_logs), fed by Tool.execute (toolkit/core.py);   *)
(*   - the webhook registration store and dispatcher                       *)
(*     (toolkit/webhooks.py, WebhookManager).                              *)
(* SQLite tables are sequences of rows in rowid (commit) order.            *)
(***************************************************************************)
EXTENDS Integers, Sequences, FiniteSets, TLC

\* ------------------------------------------------------------------ bounds
MaxCalls == 2      \* tool executions started in one behaviour
MaxTime == 2       \* last clock tick
UsecPerSec == 2    \* clock ticks per second (resolution of the fraction field)
MaxHooks == 3      \* rows of the webhooks table

\* ------------------------------------------------------- values and tables
NULL == "NULL"
PyNone == "None"
Tools == {"calc", "sum"}
\* Python values, by name:
\*   "dict1"       {"a": 1}                    "dict2"    {"a": 2}
\*   "dict1_X"     {"a": 1, "created_at": "X"} "dict1_Y"  {"a": 1, "created_at": "Y"}
\*   "only_X"      {"created_at": "X"}         "dict2_Y"  {"a": 2, "created_at": "Y"}
\*   "empty"       {}
\*   "dictNone"    {"a": None}                 "dictNoneStr"  {"a": "None"}
\*   "nest_X"      {"a": {"created_at": "X"}}  "nest_Y"   {"a": {"created_at": "Y"}}
\*   PyNone        None
\*   "obj"         an object json cannot serialise (a set, a datetime, ...)
Mappings == {"dict1", "dict2", "dict1_X", "dict1_Y", "dict2_Y", "only_X",
             "empty", "dictNone", "dictNoneStr"}
\* values a tool function can return
OutputVals == Mappings \cup {PyNone, "obj"}
InputVals == {"in1"}

\* Python truthiness of an output value (logging.py:94,111)
Truthy(v) == v \notin {"empty", PyNone}

\* json.dumps raises TypeError on an object it cannot serialise
Serializable(v) == v # "obj"

\* json.dumps / json.loads: the JSON text of a value, and the value of a text
JsonValues == Mappings \cup {PyNone, "in1"}
JsonDumps(v) ==
    CASE v = "dict1" -> "{\"a\": 1}"
      [] v = "dict2" -> "{\"a\": 2}"
      [] v = "dict1_X" -> "{\"a\": 1, \"created_at\": \"X\"}"
      [] v = "dict1_Y" -> "{\"a\": 1, \"created_at\": \"Y\"}"
      [] v = "dict2_Y" -> "{\"a\": 2, \"created_at\": \"Y\"}"
      [] v = "only_X" -> "{\"created_at\": \"X\"}"
      [] v = "dictNone" -> "{\"a\": null}"
      [] v = "dictNoneStr" -> "{\"a\": \"None\"}"
      [] v = "empty" -> "{}"
      [] v = PyNone -> "null"
      [] v = "in1" -> "{\"x\": 1}"
JsonLoads(s) == CHOOSE v \in JsonValues : JsonDumps(v) = s

\* log_call's conversion of a truthy dict output (logging.py:94-96): every
\* value that is not a str, int, float, bool, list or dict becomes its str();
\* None is such a value
StrConvert(v) == IF v = "dictNone" THEN "dictNoneStr" ELSE v

\* datetime.isoformat() of a naive datetime: the seconds field has a fixed
\* width, and the fraction field is printed only when it is not zero.
\* The text is the sequence of its fixed-width fields.
IsoFormat(t) ==
    IF t % UsecPerSec = 0 THEN <<t \div UsecPerSec>>
    ELSE <<t \div UsecPerSec, t % UsecPerSec>>

\* datetime.fromisoformat()
FromIsoFormat(s) ==
    IF Len(s) = 1 THEN s[1] * UsecPerSec ELSE s[1] * UsecPerSec + s[2]

\* '1970-01-01T00:00:00', the watermark of a tail on an empty table
EpochText == <<0>>

\* SQLite's comparison of two TEXT values (memcmp, a proper prefix is smaller)
TextLess(a, b) ==
    \E i \in 1..Len(b) :
        /\ \A j \in 1..(i - 1) : j <= Len(a) /\ a[j] = b[j]
        /\ (i > Len(a) \/ a[i] < b[i])

TextLeq(a, b) == a = b \/ TextLess(a, b)

VARIABLES
    now,            \* the wall clock, in ticks
    tool_calls,     \* table tool_calls, rows in commit order
    nextId,         \* number of call ids generated so far
    running,        \* Tool.execute invocations between start and log_call
    logStatus,      \* how the log_call invocations of the latest execute ended
    lastRead,       \* the read or re-initialisation the step just taken made
    tailPc,         \* position of the watch_logs generator
    tailFilter,     \* its tool_name argument
    last_timestamp, \* its watermark
    pending,        \* rows fetched by the current poll and not yet yielded
    yielded,        \* ToolCallLog objects the generator has yielded, in order
    subLen,         \* rows committed when the tail read MAX(timestamp)
    polledLen,      \* rows committed when the tail last polled successfully
    owed,           \* call ids committed above the watermark of the moment
    tailConn,       \* the sqlite3 connection the generator's frame refers to
    webhooks_db,    \* table webhooks, rows in rowid order
    webhooks,       \* WebhookManager._webhooks, the manager's in-memory view
    trigPc,         \* position of the latest trigger() call
    trigTool,       \* its tool_name argument
    tasks,          \* its _send_webhook coroutines, in gather order
    triggered,      \* the trigger() calls the tool wrappers made, in order
    wrapPc          \* position of the latest define_tool wrapper call

logVars == <<now, tool_calls, nextId, running, logStatus>>
readVars == <<lastRead>>
tailVars == <<tailPc, tailFilter, last_timestamp, pending, yielded,
              subLen, polledLen, owed, tailConn>>
hookVars == <<webhooks_db, webhooks, trigPc, trigTool, tasks>>
callVars == <<triggered, wrapPc>>
vars == <<logVars, readVars, tailVars, hookVars, callVars>>

\* ------------------------------------------------------------ table helpers
RowIds(db) == {db[i].call_id : i \in 1..Len(db)}
RowsOf(db) == {db[i] : i \in 1..Len(db)}

\* MAX over TEXT values
MaxText(S) == CHOOSE m \in S : \A x \in S : TextLeq(x, m)

\* ToolCallLog built from a row (logging.py:186-195)
ToolCallLog(row) ==
    [call_id |-> row.call_id,
     tool_name |-> row.tool_name,
     timestamp |-> FromIsoFormat(row.timestamp),
     inputs |-> JsonLoads(row.inputs),
     outputs |-> IF row.outputs # NULL THEN JsonLoads(row.outputs) ELSE PyNone,
     error |-> IF row.error # NULL THEN row.error ELSE PyNone]

\* ------------------------------------------------------------ connections
\* sqlite3.connect(...): a new open connection
Connect == "open"

\* leaving `with sqlite3.connect(...) as conn:`: the connection's __exit__
\* commits or rolls back the transaction and does not close the connection,
\* which the name `conn` of the frame goes on referring to
WithExit(conn) == conn

\* ------------------------------------------------------------------- store
\* a schema set-up that recreates the table (DROP TABLE + CREATE TABLE)
DropAndCreateTable(db) == <<>>

\* CREATE TABLE IF NOT EXISTS / CREATE INDEX IF NOT EXISTS
CreateTableIfNotExists(db) == db

\* INSERT OR REPLACE INTO tool_calls: a row with the same call_id is deleted
\* and the new row takes its place at the end
InsertOrReplaceRow(db, row, writeOk) ==
    LET Keep(r) == r.call_id # row.call_id
    IN IF writeOk
       THEN [db |-> Append(SelectSeq(db, Keep), row), ok |-> TRUE]
       ELSE [db |-> db, ok |-> FALSE]

\* INSERT INTO tool_calls: a row whose call_id is already stored violates the
\* PRIMARY KEY (sqlite3.IntegrityError); a write can also fail for storage
\* reasons (locked, full, read-only).  Returns the table and whether the
\* statement succeeded.
InsertRow(db, row, writeOk) ==
    IF writeOk /\ row.call_id \notin RowIds(db)
    THEN [db |-> Append(db, row), ok |-> TRUE]
    ELSE [db |-> db, ok |-> FALSE]

\* The row log_call writes (logging.py:106-115); the duration_ms and
\* agent_metadata columns are left out
LogRow(call_id, tool_name, inputs, outputs, start_time, error) ==
    [call_id |-> call_id,
     tool_name |-> tool_name,
     timestamp |-> IsoFormat(start_time),
     inputs |-> JsonDumps(inputs),
     outputs |-> IF Truthy(outputs) THEN JsonDumps(StrConvert(outputs)) ELSE NULL,
     error |-> error]

\* What log_call does when the INSERT raises sqlite3.Error: the except clause
\* prints to stderr and the method goes on to return None.
OnInsertError == "returned"

\* log_call: the table afterwards and how the invocation ended.  json.dumps of
\* a truthy unserialisable output raises TypeError before the INSERT.
log_call(db, call_id, tool_name, inputs, outputs, start_time, error, writeOk) ==
    IF Truthy(outputs) /\ ~Serializable(outputs)
    THEN [db |-> db, status |-> "raised"]
    ELSE LET r == InsertRow(db,
                     LogRow(call_id, tool_name, inputs, outputs, start_time, error),
                     writeOk)
         IN [db |-> r.db,
             status |-> IF r.ok THEN "returned" ELSE OnInsertError]

Init ==
    /\ now = 1
    /\ tool_calls = <<>>
    /\ nextId = 0
    /\ running = {}
    /\ logStatus = {}
    /\ lastRead = [op |-> "none"]
    /\ tailPc = "none"
    /\ tailFilter = PyNone
    /\ last_timestamp = EpochText
    /\ pending = <<>>
    /\ yielded = <<>>
    /\ subLen = 0
    /\ polledLen = 0
    /\ owed = {}
    /\ tailConn = "none"
    /\ webhooks_db = <<>>
    /\ webhooks = <<>>
    /\ trigPc = "idle"
    /\ trigTool = PyNone
    /\ tasks = <<>>
    /\ triggered = <<>>
    /\ wrapPc = [at |-> "idle"]

\* a step that is neither a read operation nor a re-initialisation
NoRead == lastRead' = [op |-> "none"]

\* the clock advances
Tick ==
    /\ now < MaxTime
    /\ now' = now + 1
    /\ UNCHANGED <<tool_calls, nextId, running, logStatus>>
    /\ NoRead
    /\ UNCHANGED <<hookVars, callVars>>
    /\ UNCHANGED tailVars

\* ToolLogger.__init__ -> _init_db on an existing store (every Tool, the
\* server, the dashboard and each CLI command construct a ToolLogger)
InitDb ==
    /\ tool_calls' = CreateTableIfNotExists(tool_calls)
    /\ lastRead' = [op |-> "init_db"]
    /\ UNCHANGED <<now, nextId, running, logStatus>>
    /\ UNCHANGED <<hookVars, callVars>>
    /\ UNCHANGED tailVars

\* ------------------------------------------------------------ Tool.execute
\* uuid.uuid4(): an identifier no earlier call has (ids are opaque, the
\* n-th generated one is named n)
generate_call_id(n) == n + 1

\* Tool.execute up to the call of the tool function (core.py:62-63)
ExecuteStart(tool, inputs) ==
    /\ nextId < MaxCalls
    /\ nextId' = generate_call_id(nextId)
    /\ running' = running \cup
           {[call_id |-> generate_call_id(nextId), tool_name |-> tool,
             inputs |-> inputs, start_time |-> now]}
    /\ UNCHANGED <<now, tool_calls, logStatus>>
    /\ NoRead
    /\ UNCHANGED <<hookVars, callVars>>
    /\ UNCHANGED tailVars

\* The log_call invocations of one Tool.execute whose function returned
\* `result` (core.py:73-94): the success record, and when that log_call
\* raises, the except clause logs an error record.
ExecuteReturned(db, c, result, writeOk) ==
    LET first == log_call(db, c.call_id, c.tool_name, c.inputs, result,
                          c.start_time, NULL, writeOk)
    IN IF first.status = "returned"
       THEN [db |-> first.db, statuses |-> {[call_id |-> c.call_id, status |-> "returned"]}]
       ELSE LET second == log_call(first.db, c.call_id, c.tool_name, c.inputs, PyNone,
                                   c.start_time, "TypeError", writeOk)
            IN [db |-> second.db,
                statuses |-> {[call_id |-> c.call_id, status |-> "raised"],
                              [call_id |-> c.call_id, status |-> second.status]}]

\* The log_call of a Tool.execute whose function raised (core.py:84-94)
ExecuteRaised(db, c, writeOk) ==
    LET r == log_call(db, c.call_id, c.tool_name, c.inputs, PyNone,
                      c.start_time, "boom", writeOk)
    IN [db |-> r.db, statuses |-> {[call_id |-> c.call_id, status |-> r.status]}]

\* Rows committed above the watermark a running tail has at that moment,
\* matching its filter
NewlyOwed(old, new) ==
    IF tailPc \in {"wait", "rows", "yield"}
    THEN {new[i].call_id : i \in {j \in (Len(old) + 1)..Len(new) :
              /\ TextLess(last_timestamp, new[j].timestamp)
              /\ (tailFilter = PyNone \/ new[j].tool_name = tailFilter)}}
    ELSE {}

\* Tool.execute from the return of the tool function on (core.py:65-94)
ExecuteFinish(c, outcome, writeOk) ==
    /\ c \in running
    /\ LET r == IF outcome = "raise"
                THEN ExecuteRaised(tool_calls, c, writeOk)
                ELSE ExecuteReturned(tool_calls, c, outcome, writeOk)
       IN /\ tool_calls' = r.db
          /\ logStatus' = r.statuses
          /\ owed' = owed \cup NewlyOwed(tool_calls, r.db)
    /\ running' = running \ {c}
    /\ NoRead
    /\ UNCHANGED <<hookVars, callVars>>
    /\ UNCHANGED <<now, nextId>>
    /\ UNCHANGED <<tailPc, tailFilter, last_timestamp, pending,
                   yielded, subLen, polledLen, tailConn>>

\* -------------------------------------------------------------- watch_logs
\* Calling watch_logs creates the generator; nothing runs before next()
WatchLogs(filter) ==
    /\ tailPc = "none"
    /\ tailPc' = "created"
    /\ tailFilter' = filter
    /\ NoRead
    /\ UNCHANGED <<hookVars, callVars>>
    /\ UNCHANGED <<logVars, last_timestamp, pending, yielded,
                   subLen, polledLen, owed, tailConn>>

\* SELECT MAX(timestamp) FROM tool_calls, with the default of an empty table
\* (logging.py:164-166)
MaxTimestamp(db) ==
    IF db = <<>> THEN EpochText
    ELSE MaxText({db[i].timestamp : i \in 1..Len(db)})

\* First next(): the tail reads its initial watermark (logging.py:162-166)
Subscribe ==
    /\ tailPc = "created"
    /\ last_timestamp' = MaxTimestamp(tool_calls)
    /\ subLen' = Len(tool_calls)
    /\ polledLen' = Len(tool_calls)
    /\ tailConn' = WithExit(Connect)
    /\ tailPc' = "wait"
    /\ NoRead
    /\ UNCHANGED <<hookVars, callVars>>
    /\ UNCHANGED <<logVars, tailFilter, pending, yielded, owed>>

\* the same query with WHERE timestamp >= ?
PollMatchesInclusive(db, watermark, filter) ==
    {i \in 1..Len(db) :
        /\ TextLeq(watermark, db[i].timestamp)
        /\ (filter = PyNone \/ db[i].tool_name = filter)}

\* WHERE timestamp > ? [AND tool_name = ?] (logging.py:172-180)
PollMatches(db, watermark, filter) ==
    {i \in 1..Len(db) :
        /\ TextLess(watermark, db[i].timestamp)
        /\ (filter = PyNone \/ db[i].tool_name = filter)}

\* the same query without its ORDER BY clause: the rows in any order
Unordered(db, I) ==
    {q \in [1..Cardinality(I) -> I] :
        \A a, b \in 1..Cardinality(I) : a # b => q[a] # q[b]}

\* ORDER BY timestamp ASC: the orders SQLite may return the rows I in; rows
\* with equal timestamps come in an order the query does not fix
OrderByTimestampAsc(db, I) ==
    {q \in [1..Cardinality(I) -> I] :
        /\ \A a, b \in 1..Cardinality(I) : a # b => q[a] # q[b]
        /\ \A a \in 1..(Cardinality(I) - 1) :
               TextLeq(db[q[a]].timestamp, db[q[a + 1]].timestamp)}

\* One poll: the query and fetchall (logging.py:170-184); with no rows the
\* tail sleeps and polls again
Poll ==
    /\ tailPc = "wait"
    /\ \E q \in OrderByTimestampAsc(tool_calls,
                    PollMatches(tool_calls, last_timestamp, tailFilter)) :
           /\ pending' = [k \in 1..Len(q) |-> tool_calls[q[k]]]
           /\ tailPc' = IF Len(q) = 0 THEN "wait" ELSE "rows"
           /\ tailConn' = IF Len(q) = 0 THEN WithExit(Connect) ELSE Connect
    /\ polledLen' = Len(tool_calls)
    /\ NoRead
    /\ UNCHANGED <<hookVars, callVars>>
    /\ UNCHANGED <<logVars, tailFilter, last_timestamp, yielded, subLen, owed>>

\* a loop body that leaves the watermark alone
KeepWatermark(watermark, row) == watermark

\* The watermark after yielding a row (logging.py:196)
AdvanceWatermark(watermark, row) == row.timestamp

\* The loop body: build the ToolCallLog, advance the watermark, yield
\* (logging.py:185-197)
YieldRow ==
    /\ tailPc = "rows"
    /\ pending # <<>>
    /\ yielded' = Append(yielded, ToolCallLog(Head(pending)))
    /\ last_timestamp' = AdvanceWatermark(last_timestamp, Head(pending))
    /\ pending' = Tail(pending)
    /\ tailPc' = "yield"
    /\ NoRead
    /\ UNCHANGED <<hookVars, callVars>>
    /\ UNCHANGED <<logVars, tailFilter, subLen, polledLen, owed, tailConn>>

\* The consumer calls next(): the loop goes on, or the batch is over and the
\* tail sleeps (logging.py:185,199)
Resume ==
    /\ tailPc = "yield"
    /\ tailPc' = IF pending = <<>> THEN "wait" ELSE "rows"
    /\ tailConn' = IF pending = <<>> THEN WithExit(tailConn) ELSE tailConn
    /\ NoRead
    /\ UNCHANGED <<hookVars, callVars>>
    /\ UNCHANGED <<logVars, tailFilter, last_timestamp, pending,
                   yielded, subLen, polledLen, owed>>

\* outcomes of tool functions and filters the tail is exercised with
TailOutcomes == {"dict1", "raise"}
TailFilters == {PyNone, "calc"}

TailStep == Subscribe \/ Poll \/ YieldRow \/ Resume

NextTail ==
    \/ Tick
    \/ \E tool \in Tools, inputs \in InputVals : ExecuteStart(tool, inputs)
    \/ \E c \in running, outcome \in TailOutcomes, writeOk \in BOOLEAN :
           ExecuteFinish(c, outcome, writeOk)
    \/ \E filter \in TailFilters : WatchLogs(filter)
    \/ TailStep

SpecTail == Init /\ [][NextTail]_vars

\* under the scheduling of a consumer that keeps iterating (the CLI's
\* `for log in logger.watch_logs(...)`), the generator keeps running
FairSpecTail == SpecTail /\ WF_vars(TailStep)

\* ------------------------------------------------- get_logs, get_call, replay
\* ORDER BY timestamp DESC
OrderByTimestampDesc(db, I) ==
    {q \in [1..Cardinality(I) -> I] :
        /\ \A a, b \in 1..Cardinality(I) : a # b => q[a] # q[b]
        /\ \A a \in 1..(Cardinality(I) - 1) :
               TextLeq(db[q[a + 1]].timestamp, db[q[a]].timestamp)}

\* [WHERE tool_name = ?] (logging.py:139-141)
GetLogsMatches(db, tool) ==
    {i \in 1..Len(db) : tool = PyNone \/ db[i].tool_name = tool}

\* LIMIT ?
Limit(q, limit) == SubSeq(q, 1, IF limit < Len(q) THEN limit ELSE Len(q))

\* get_logs (logging.py:132-157)
GetLogs(tool, limit) ==
    /\ \E q \in OrderByTimestampDesc(tool_calls, GetLogsMatches(tool_calls, tool)) :
           lastRead' = [op |-> "get_logs", tool_name |-> tool, limit |-> limit,
                        result |-> [k \in 1..Len(Limit(q, limit)) |->
                                       ToolCallLog(tool_calls[q[k]])]]
    /\ UNCHANGED <<logVars, tailVars, hookVars, callVars>>

\* ReplayManager.get_call (replay.py:22-43): the call as a dict, or
\* FileNotFoundError
get_call(db, call_id) ==
    IF \E i \in 1..Len(db) : db[i].call_id = call_id
    THEN LET row == db[CHOOSE i \in 1..Len(db) : db[i].call_id = call_id]
         IN [status |-> "ok",
             id |-> row.call_id,
             tool |-> row.tool_name,
             timestamp |-> row.timestamp,
             inputs |-> JsonLoads(row.inputs),
             outputs |-> IF row.outputs # NULL THEN JsonLoads(row.outputs) ELSE PyNone,
             error |-> IF row.error # NULL THEN row.error ELSE PyNone]
    ELSE [status |-> "FileNotFoundError"]

GetCall(call_id) ==
    /\ lastRead' = [op |-> "get_call", result |-> get_call(tool_calls, call_id)]
    /\ UNCHANGED <<logVars, tailVars, hookVars, callVars>>

\* the tools of the module handed to replay (tool_registry.get_tool)
Registry == {"calc"}

\* what tool._func(**inputs) under asyncio.run does when replayed: an async
\* function returns a value or raises; a plain function runs and asyncio.run
\* raises ValueError (a coroutine was expected)
ReplayBehaviours == {"dict1", "raise", "plain"}

\* a replay whose tool invocation is not guarded by try/except
replay_call_unguarded(db, call_id, registry, behaviour, t) ==
    LET call_data == get_call(db, call_id)
    IN IF call_data.status # "ok"
       THEN [status |-> "FileNotFoundError", invoked |-> FALSE]
       ELSE IF call_data.tool \notin registry
       THEN [status |-> "ValueError", invoked |-> FALSE]
       ELSE IF behaviour \in {"raise", "plain"}
       THEN [status |-> "raised", invoked |-> TRUE]
       ELSE [status |-> "ok", invoked |-> TRUE, original_call |-> call_data,
             replay_result |-> behaviour, timestamp |-> t]

\* a replay that does not check what the registry resolved: tool is None and
\* tool._func raises AttributeError inside the try
replay_call_unresolved(db, call_id, registry, behaviour, t) ==
    LET call_data == get_call(db, call_id)
    IN IF call_data.status # "ok"
       THEN [status |-> "FileNotFoundError", invoked |-> FALSE]
       ELSE IF call_data.tool \notin registry
       THEN [status |-> "ok", invoked |-> FALSE, original_call |-> call_data,
             replay_error |-> "AttributeError", timestamp |-> t]
       ELSE IF behaviour \in {"raise", "plain"}
       THEN [status |-> "ok", invoked |-> TRUE, original_call |-> call_data,
             replay_error |-> behaviour, timestamp |-> t]
       ELSE [status |-> "ok", invoked |-> TRUE, original_call |-> call_data,
             replay_result |-> behaviour, timestamp |-> t]

\* replay_call (replay.py:45-68) at time t: how it ends (status), whether the
\* tool function was called, and the outcome dict it returns
replay_call(db, call_id, registry, behaviour, t) ==
    LET call_data == get_call(db, call_id)
    IN IF call_data.status # "ok"
       THEN [status |-> "FileNotFoundError", invoked |-> FALSE]
       ELSE IF call_data.tool \notin registry
       THEN [status |-> "ValueError", invoked |-> FALSE]
       ELSE IF behaviour \in {"raise", "plain"}
       THEN [status |-> "ok", invoked |-> TRUE, original_call |-> call_data,
             replay_error |-> behaviour, timestamp |-> t]
       ELSE [status |-> "ok", invoked |-> TRUE, original_call |-> call_data,
             replay_result |-> behaviour, timestamp |-> t]

\* The calls replay_call makes of the resolved tool's function, each by the
\* keyword arguments it is given: one call tool._func(**call_data["inputs"])
\* once the call is loaded and the tool resolved (replay.py:57)
replay_invocations(db, call_id, registry) ==
    LET call_data == get_call(db, call_id)
    IN IF call_data.status = "ok" /\ call_data.tool \in registry
       THEN <<call_data.inputs>>
       ELSE <<>>

\* a replay that runs the tool through Tool.execute, which logs the call as
\* a new record (`asyncio.run(tool.execute(**call_data["inputs"]))`)
ReplayCallThroughExecute(call_id, registry, behaviour) ==
    LET r == replay_call(tool_calls, call_id, registry, behaviour, now)
        row == LogRow(generate_call_id(nextId), r.original_call.tool,
                      r.original_call.inputs,
                      IF "replay_result" \in DOMAIN r THEN r.replay_result ELSE PyNone,
                      now,
                      IF "replay_error" \in DOMAIN r THEN r.replay_error ELSE NULL)
    IN /\ lastRead' = [op |-> "replay_call", call_id |-> call_id,
                       registry |-> registry, result |-> r,
                       calls |-> replay_invocations(tool_calls, call_id, registry)]
       /\ tool_calls' = IF r.invoked THEN Append(tool_calls, row) ELSE tool_calls
       /\ nextId' = IF r.invoked THEN generate_call_id(nextId) ELSE nextId
       /\ UNCHANGED <<now, running, logStatus>>
       /\ UNCHANGED <<tailVars, hookVars, callVars>>

\* replay_call as a step: it reads the store (get_call) and calls
\* tool._func, not Tool.execute, so no log_call runs and the store is left
\* as it is; `calls` are the calls made of the tool's function
ReplayCall(call_id, registry, behaviour) ==
    /\ lastRead' = [op |-> "replay_call", call_id |-> call_id,
                    registry |-> registry,
                    result |-> replay_call(tool_calls, call_id, registry,
                                           behaviour, now),
                    calls |-> replay_invocations(tool_calls, call_id, registry)]
    /\ UNCHANGED <<logVars, tailVars, hookVars, callVars>>

\* the tool executed, and the arguments the read operations are exercised
\* with, beside the tail
LogTools == {"calc"}
LogReadTools == {PyNone}
LogReadLimits == {1}
LogReadIds == {1}

NextLog ==
    \/ Tick
    \/ InitDb
    \/ \E tool \in LogTools, inputs \in InputVals : ExecuteStart(tool, inputs)
    \/ \E c \in running, outcome \in TailOutcomes, writeOk \in BOOLEAN :
           ExecuteFinish(c, outcome, writeOk)
    \/ \E tool \in LogReadTools, limit \in LogReadLimits : GetLogs(tool, limit)
    \/ \E call_id \in LogReadIds : GetCall(call_id)
    \/ \E call_id \in LogReadIds, b \in ReplayBehaviours :
           ReplayCall(call_id, Registry, b)
    \/ \E filter \in LogReadTools : WatchLogs(filter)
    \/ TailStep

SpecLog == Init /\ [][NextLog]_vars

\* ------------------------------------------- the tail under faults and stops
\* exceptions raised inside the generator: a storage error of sqlite3, the
\* GeneratorExit that close() (or the collection of a dropped generator)
\* throws at the yield, the KeyboardInterrupt of Ctrl+C (cli.py:170-175)
StorageErrors == {"sqlite3.OperationalError"}
CancelSignals == {"GeneratorExit", "KeyboardInterrupt"}

\* a handler that catches everything (`except:` or `except BaseException`)
CaughtByBareExcept(exc) == TRUE

\* `except Exception as e` (logging.py:201): GeneratorExit and
\* KeyboardInterrupt derive from BaseException, not from Exception
CaughtByExceptException(exc) == exc \notin {"GeneratorExit", "KeyboardInterrupt"}

\* The first read of the store, SELECT MAX(timestamp), raises
\* (logging.py:162-166): it stands before the `while True: try:`, so the
\* exception leaves the generator, which is finished
SubscribeFails(exc) ==
    /\ tailPc = "created"
    /\ tailPc' = "raised"
    /\ tailConn' = "closed"
    /\ lastRead' = [op |-> "tail_error", at |-> "subscribe", exc |-> exc,
                    watermark |-> last_timestamp]
    /\ UNCHANGED <<logVars, tailFilter, last_timestamp, pending, yielded,
                   subLen, polledLen, owed>>
    /\ UNCHANGED <<hookVars, callVars>>

\* The connect or the query of a poll raises (logging.py:169-184): the
\* except clause prints the error and sleeps, and the loop polls again
\* (logging.py:201-203); an exception the clause does not catch ends the tail
PollFails(exc) ==
    /\ tailPc = "wait"
    /\ tailPc' = IF CaughtByExceptException(exc) THEN "wait" ELSE "raised"
    /\ tailConn' = IF CaughtByExceptException(exc) THEN tailConn ELSE "closed"
    /\ lastRead' = [op |-> "tail_error", at |-> "poll", exc |-> exc,
                    watermark |-> last_timestamp]
    /\ UNCHANGED <<logVars, tailFilter, last_timestamp, pending, yielded,
                   subLen, polledLen, owed>>
    /\ UNCHANGED <<hookVars, callVars>>

\* The consumer stops the tail: close() throws GeneratorExit at the yield the
\* generator is suspended at (logging.py:197), Ctrl+C raises
\* KeyboardInterrupt in its sleep (logging.py:199); both points are inside
\* the try.  An exception the except clause does not catch leaves the
\* generator: its frame is released and with it the connection.  A generator
\* that has not started is closed without running.
Cancel(exc) ==
    /\ \/ exc = "GeneratorExit" /\ tailPc \in {"created", "yield"}
       \/ exc = "KeyboardInterrupt" /\ tailPc = "wait"
    /\ IF tailPc # "created" /\ CaughtByExceptException(exc)
       THEN tailPc' = "wait" /\ tailConn' = tailConn
       ELSE tailPc' = "closed" /\ tailConn' = IF tailConn = "none" THEN "none"
                                               ELSE "closed"
    /\ pending' = <<>>
    /\ lastRead' = [op |-> "tail_cancel", exc |-> exc]
    /\ UNCHANGED <<logVars, tailFilter, last_timestamp, yielded,
                   subLen, polledLen, owed>>
    /\ UNCHANGED <<hookVars, callVars>>

NextTailFaults ==
    \/ Tick
    \/ \E tool \in LogTools, inputs \in InputVals : ExecuteStart(tool, inputs)
    \/ \E c \in running, outcome \in TailOutcomes, writeOk \in BOOLEAN :
           ExecuteFinish(c, outcome, writeOk)
    \/ \E filter \in LogReadTools : WatchLogs(filter)
    \/ TailStep
    \/ \E exc \in StorageErrors : SubscribeFails(exc)
    \/ \E exc \in StorageErrors : PollFails(exc)
    \/ \E exc \in CancelSignals : Cancel(exc)

SpecTailFaults == Init /\ [][NextTailFaults]_vars

\* ------------------------------------------------ the store used directly
\* ToolLogger.log_call called with a record of the caller's making
\* (logging.py:80-118); a start time is never in the future
LogCall(call_id, tool_name, inputs, outputs, start_time, error, writeOk) ==
    /\ start_time \in 1..now
    /\ LET r == log_call(tool_calls, call_id, tool_name, inputs, outputs,
                         start_time, error, writeOk)
       IN /\ Len(r.db) <= MaxCalls
          /\ tool_calls' = r.db
          /\ owed' = owed \cup NewlyOwed(tool_calls, r.db)
          /\ lastRead' = [op |-> "log_call", call_id |-> call_id,
                          tool_name |-> tool_name, inputs |-> inputs,
                          outputs |-> outputs, start_time |-> start_time,
                          error |-> error, status |-> r.status]
    /\ UNCHANGED <<now, nextId, running, logStatus>>
    /\ UNCHANGED <<tailPc, tailFilter, last_timestamp, pending,
                   yielded, subLen, polledLen, tailConn>>
    /\ UNCHANGED <<hookVars, callVars>>

\* records and queries the store is exercised with
StoreOutputs == {"dict1"}
StoreFilters == {PyNone, "calc"}
StoreLimits == {0, 1, 2}

NextStore ==
    \/ Tick
    \/ \E call_id \in 1..MaxCalls, tool_name \in Tools, inputs \in InputVals,
          outputs \in StoreOutputs, start_time \in 1..MaxTime, writeOk \in BOOLEAN :
           LogCall(call_id, tool_name, inputs, outputs, start_time, NULL, writeOk)
    \/ \E tool \in StoreFilters, limit \in StoreLimits : GetLogs(tool, limit)

SpecStore == Init /\ [][NextStore]_vars

\* ------------------------------------------------------ dashboard /api/logs
\* ToolCallLog.to_dict (logging.py:23-33): the timestamp as ISO text
to_dict(log) ==
    [call_id |-> log.call_id, tool_name |-> log.tool_name,
     timestamp |-> IsoFormat(log.timestamp), inputs |-> log.inputs,
     outputs |-> log.outputs, error |-> log.error]

\* GET /api/logs?tool=..&limit=..&offset=..&status=.. (dashboard.py:17-21):
\* the handler declares tool, limit and offset, passes tool and limit to
\* get_logs and serialises what comes back; a query parameter it does not
\* declare (status) is dropped by the framework
ApiLogs(tool, limit, offset, status) ==
    /\ \E q \in OrderByTimestampDesc(tool_calls, GetLogsMatches(tool_calls, tool)) :
           lastRead' = [op |-> "api_logs", tool |-> tool, limit |-> limit,
                        offset |-> offset, status |-> status,
                        result |-> [k \in 1..Len(Limit(q, limit)) |->
                                       to_dict(ToolCallLog(tool_calls[q[k]]))]]
    /\ UNCHANGED <<logVars, tailVars, hookVars, callVars>>

\* requests the endpoint is exercised with
ApiTools == {PyNone, "calc"}
ApiLimits == {1, 2}
ApiOffsets == {0, 1}
ApiStatuses == {PyNone, "success", "failure"}

NextApi ==
    \/ Tick
    \/ \E call_id \in 1..MaxCalls, tool_name \in Tools, inputs \in InputVals,
          start_time \in 1..MaxTime, failed \in BOOLEAN :
           LogCall(call_id, tool_name, inputs,
                   IF failed THEN PyNone ELSE "dict1", start_time,
                   IF failed THEN "boom" ELSE NULL, TRUE)
    \/ \E tool \in ApiTools, limit \in ApiLimits, offset \in ApiOffsets,
          status \in ApiStatuses : ApiLogs(tool, limit, offset, status)

SpecApi == Init /\ [][NextApi]_vars

\* ------------------------------------------- replay of deterministic tools
\* Tools whose functions are deterministic and free of side effects; the
\* tool's name tells its function:
\*   "const"     async def, returns {"a": 1}
\*   "stamped"   async def, returns {"a": 1, "created_at": <time of the call>}
\*   "nullable"  async def, returns {"a": None}
\*   "void"      async def, returns {}
\*   "failing"   async def, raises
\*   "sync"      plain def, returns {"a": 1}
ReplayTools == {"const", "stamped", "nullable", "void", "failing", "sync"}

\* asyncio.iscoroutinefunction(self._func) (core.py:67)
IsCoroutineFunction(tool) == tool # "sync"

\* what the body of the tool's function does when run at time t
FuncResult(tool, t) ==
    CASE tool = "const" -> "dict1"
      [] tool = "stamped" -> IF t = 1 THEN "dict1_X" ELSE "dict1_Y"
      [] tool = "nullable" -> "dictNone"
      [] tool = "void" -> "empty"
      [] tool = "failing" -> "raise"
      [] tool = "sync" -> "dict1"

\* Tool.execute awaits an async function and calls a plain one directly
\* (core.py:67-70): either way the outcome is the body's
ExecuteTool(c, writeOk) == ExecuteFinish(c, FuncResult(c.tool_name, now), writeOk)

\* asyncio.run(tool._func(**inputs)) (replay.py:57): the call of a plain
\* function returns its value, which asyncio.run rejects
ReplayBehaviour(tool, t) ==
    IF IsCoroutineFunction(tool) THEN FuncResult(tool, t) ELSE "plain"

\* registries a replay is given: no tool, every tool, every tool but "const"
Registries == {{}, ReplayTools, ReplayTools \ {"const"}}

\* replay of a call against the code that executed it
ReplayTool(call_id, registry) ==
    LET call_data == get_call(tool_calls, call_id)
    IN ReplayCall(call_id, registry,
                  IF call_data.status = "ok" /\ call_data.tool \in ReplayTools
                  THEN ReplayBehaviour(call_data.tool, now) ELSE "raise")

\* compare_outputs (replay.py:70-89) on mappings and None
\* `x.copy() if x else {}`
CopyOrEmpty(v) == IF Truthy(v) THEN v ELSE "empty"
\* `.pop('created_at', None)`: the key of the mapping itself; a mapping
\* nested in a value is not visited
PopCreatedAt(v) ==
    CASE v \in {"dict1_X", "dict1_Y"} -> "dict1"
      [] v = "dict2_Y" -> "dict2"
      [] v = "only_X" -> "empty"
      [] OTHER -> v
compare_outputs(original_output, replay_output) ==
    PopCreatedAt(CopyOrEmpty(original_output)) = PopCreatedAt(CopyOrEmpty(replay_output))

\* a comparison that works on the caller's dict when there is one
\* (`orig = original_output or {}`)
SameObject(v) == IF Truthy(v) THEN "argument" ELSE "fresh"

\* The object the names orig and replay are bound to (replay.py:82-83):
\* `x.copy() if x else {}` is a new dict in both branches, never the
\* caller's object
CopyTarget(v) == "fresh"

\* the caller's object once `.pop('created_at', None)` has run on the object
\* the local name is bound to (replay.py:86-87)
AfterPop(v, target) == IF target = "argument" THEN PopCreatedAt(v) ELSE v

\* the arguments of compare_outputs as the caller finds them after the call
compare_outputs_arguments(original_output, replay_output) ==
    [original_output |-> AfterPop(original_output, CopyTarget(original_output)),
     replay_output |-> AfterPop(replay_output, CopyTarget(replay_output))]

\* mappings whose only created_at field sits inside a nested mapping
NestedMappings == {"nest_X", "nest_Y"}

\* values compare_outputs is exercised with: mappings, flat and nested, and
\* an absent output
CompareVals == Mappings \cup NestedMappings \cup {PyNone}

CompareOutputs(a, b) ==
    /\ lastRead' = [op |-> "compare_outputs", original_output |-> a,
                    replay_output |-> b, result |-> compare_outputs(a, b),
                    arguments |-> compare_outputs_arguments(a, b)]
    /\ UNCHANGED <<logVars, tailVars, hookVars, callVars>>

NextReplay ==
    \/ Tick
    \/ \E tool \in ReplayTools, inputs \in InputVals : ExecuteStart(tool, inputs)
    \/ \E c \in running, writeOk \in BOOLEAN : ExecuteTool(c, writeOk)
    \/ \E call_id \in 1..MaxCalls, registry \in Registries : ReplayTool(call_id, registry)

SpecReplay == Init /\ [][NextReplay]_vars

NextCompare == \E a, b \in CompareVals : CompareOutputs(a, b)

SpecCompare == Init /\ [][NextCompare]_vars

\* ------------------------------------------------ webhook registration store
Urls == {"u1", "u2"}
Secrets == {NULL, "s1", "s2"}
HookScopes == {NULL, "calc"}
EventTools == {"calc", "other"}

\* retries INTEGER DEFAULT 3: add_webhook's INSERT names no retries column
DefaultRetries == 3

\* Two rows collide on PRIMARY KEY (url, tool_name) when both columns are
\* equal; SQLite treats NULLs as distinct from each other in a primary key of
\* an ordinary rowid table, so rows with a NULL tool_name never collide.
KeyConflict(a, b) ==
    a.url = b.url /\ a.tool_name # NULL /\ a.tool_name = b.tool_name

\* INSERT OR REPLACE INTO webhooks (url, tool_name, secret): the rows that
\* collide with the new one are deleted, the new row is added
InsertOrReplace(db, url, tool_name, secret) ==
    LET row == [url |-> url, tool_name |-> tool_name, secret |-> secret,
                retries |-> DefaultRetries]
        Keep(r) == ~KeyConflict(r, row)
    IN Append(SelectSeq(db, Keep), row)

\* DELETE FROM webhooks WHERE url = ?: every entry of the url, whatever its
\* scope
DeleteByUrl(db, url, tool_name) ==
    LET Keep(r) == r.url # url
    IN SelectSeq(db, Keep)

\* DELETE FROM webhooks WHERE url = ? AND (tool_name = ? OR (tool_name IS NULL
\* AND ? IS NULL))
DeleteWebhook(db, url, tool_name) ==
    LET Keep(r) == ~(r.url = url /\ r.tool_name = tool_name)
    IN SelectSeq(db, Keep)

\* _load_webhooks: SELECT * FROM webhooks, one WebhookConfig per row
\* (webhooks.py:49-65)
load_webhooks(db) ==
    [i \in 1..Len(db) |->
        [url |-> db[i].url, tool_name |-> db[i].tool_name,
         secret |-> db[i].secret, retries |-> db[i].retries]]

\* list_webhooks (webhooks.py:92-101)
list_webhooks(view) ==
    [i \in 1..Len(view) |->
        [url |-> view[i].url, tool_name |-> view[i].tool_name, active |-> TRUE]]

\* add_webhook (webhooks.py:67-78)
AddWebhook(url, tool_name, secret) ==
    /\ Len(InsertOrReplace(webhooks_db, url, tool_name, secret)) <= MaxHooks
    /\ webhooks_db' = InsertOrReplace(webhooks_db, url, tool_name, secret)
    /\ webhooks' = load_webhooks(webhooks_db')
    /\ UNCHANGED <<trigPc, trigTool, tasks>>
    /\ UNCHANGED <<logVars, readVars, tailVars, callVars>>

\* a remove_webhook that also cancels the deliveries in flight to the
\* registration it removes
RemoveWebhookCancelling(url, tool_name) ==
    LET Keep(t) == ~(t.config.url = url /\ t.config.tool_name = tool_name)
    IN /\ webhooks_db' = DeleteWebhook(webhooks_db, url, tool_name)
       /\ webhooks' = load_webhooks(webhooks_db')
       /\ tasks' = SelectSeq(tasks, Keep)
       /\ UNCHANGED <<trigPc, trigTool>>
       /\ UNCHANGED <<logVars, readVars, tailVars, callVars>>

\* remove_webhook (webhooks.py:80-90): the table and the view change (the
\* view is rebound to a new list, webhooks.py:55); the list matching_hooks
\* and the coroutines of a trigger in flight keep their WebhookConfig objects
RemoveWebhook(url, tool_name) ==
    /\ webhooks_db' = DeleteWebhook(webhooks_db, url, tool_name)
    /\ webhooks' = load_webhooks(webhooks_db')
    /\ UNCHANGED <<trigPc, trigTool, tasks>>
    /\ UNCHANGED <<logVars, readVars, tailVars, callVars>>

NextHooks ==
    \/ \E url \in Urls, tool_name \in HookScopes, secret \in Secrets :
           AddWebhook(url, tool_name, secret)
    \/ \E url \in Urls, tool_name \in HookScopes : RemoveWebhook(url, tool_name)

SpecHooks == Init /\ [][NextHooks]_vars

\* ------------------------------------------------------ webhook dispatcher
\* how one POST can end: a success status, an error status
\* (raise_for_status raises), or a transport error (post raises)
Responses == {"2xx", "status_error", "transport_error"}

\* what the try block of one attempt does with the response: it returns, or
\* an exception (httpx.HTTPStatusError, httpx.TransportError) reaches the
\* `except Exception` clause
Outcome(response) == IF response = "2xx" THEN "ok" ELSE "fail"

\* a trigger that notifies every registration of the view
MatchAllHooks(view, tool_name) == view

\* Find matching webhooks (webhooks.py:126-130)
MatchingHooks(view, tool_name) ==
    LET Match(w) == w.tool_name = NULL \/ w.tool_name = tool_name
    IN SelectSeq(view, Match)

\* the coroutine _send_webhook(config, payload) before its first attempt:
\* range(config.retries) is empty for a budget of 0
NewTask(config) ==
    [config |-> config, results |-> <<>>,
     st |-> IF config.retries > 0 THEN "ready" ELSE "done"]

\* trigger up to the await of gather (webhooks.py:118-136)
Trigger(tool_name) ==
    /\ trigPc \in {"idle", "returned", "raised"}
    /\ trigPc' = "gathering"
    /\ trigTool' = tool_name
    /\ tasks' = LET m == MatchingHooks(webhooks, tool_name)
                IN [k \in 1..Len(m) |-> NewTask(m[k])]
    /\ UNCHANGED <<webhooks_db, webhooks>>
    /\ UNCHANGED <<logVars, readVars, tailVars, callVars>>

\* a trigger that awaits its deliveries one after the other
\* (`for hook in matching_hooks: await self._send_webhook(hook, payload)`)
SendAttemptInOrder(i) ==
    /\ i \in 1..Len(tasks)
    /\ tasks[i].st = "ready"
    /\ \A j \in 1..(i - 1) : tasks[j].st = "done"
    /\ tasks' = [tasks EXCEPT ![i].st = "inflight"]
    /\ UNCHANGED <<webhooks_db, webhooks, trigPc, trigTool>>
    /\ UNCHANGED <<logVars, readVars, tailVars, callVars>>

\* One iteration of the retry loop up to the await of the POST
\* (webhooks.py:139-152).  gather wraps every coroutine in a task of its own
\* (webhooks.py:133-136), so each runs whenever it is ready, whatever the
\* others are doing
SendAttempt(i) ==
    /\ i \in 1..Len(tasks)
    /\ tasks[i].st = "ready"
    /\ tasks' = [tasks EXCEPT ![i].st = "inflight"]
    /\ UNCHANGED <<webhooks_db, webhooks, trigPc, trigTool>>
    /\ UNCHANGED <<logVars, readVars, tailVars, callVars>>

\* a retry loop that goes on after a successful attempt (no `return`)
AfterAttemptNoReturn(task, response) ==
    LET rs == Append(task.results, Outcome(response))
    IN [task EXCEPT !.results = rs,
                    !.st = IF Len(rs) = task.config.retries THEN "done" ELSE "ready"]

\* a retry loop that re-raises the last failure
AfterAttemptReraise(task, response) ==
    LET rs == Append(task.results, Outcome(response))
    IN IF Outcome(response) = "ok" THEN [task EXCEPT !.results = rs, !.st = "done"]
       ELSE IF Len(rs) = task.config.retries
       THEN [task EXCEPT !.results = rs, !.st = "raised"]
       ELSE [task EXCEPT !.results = rs, !.st = "ready"]

\* a retry loop that tries again after every failure, whatever the budget
\* (`while True:` in place of `for attempt in range(config.retries):`)
AfterAttemptRetryForever(task, response) ==
    IF Outcome(response) = "ok"
    THEN [task EXCEPT !.results = Append(task.results, "ok"), !.st = "done"]
    ELSE [task EXCEPT !.st = "ready"]

\* the rest of the iteration once the POST has ended (webhooks.py:153-159):
\* return on success; on an exception print after the last attempt, and the
\* loop goes on or ends
AfterAttempt(task, response) ==
    LET rs == Append(task.results, Outcome(response))
    IN IF Outcome(response) = "ok" THEN [task EXCEPT !.results = rs, !.st = "done"]
       ELSE IF Len(rs) = task.config.retries
       THEN [task EXCEPT !.results = rs, !.st = "done"]
       ELSE [task EXCEPT !.results = rs, !.st = "ready"]

AttemptDone(i, response) ==
    /\ i \in 1..Len(tasks)
    /\ tasks[i].st = "inflight"
    /\ tasks' = [tasks EXCEPT ![i] = AfterAttempt(tasks[i], response)]
    /\ UNCHANGED <<webhooks_db, webhooks, trigPc, trigTool>>
    /\ UNCHANGED <<logVars, readVars, tailVars, callVars>>

\* a trigger that schedules its deliveries and does not wait for them
GatherNoWait(ts) == "returned"

\* await asyncio.gather(*coroutines): raises the first exception a coroutine
\* raises, returns once all have returned
Gather(ts) ==
    IF \E i \in 1..Len(ts) : ts[i].st = "raised" THEN "raised"
    ELSE IF \A i \in 1..Len(ts) : ts[i].st = "done" THEN "returned"
    ELSE "gathering"

\* trigger resumes from the await (webhooks.py:133-136)
TriggerReturn ==
    /\ trigPc = "gathering"
    /\ Gather(tasks) # "gathering"
    /\ trigPc' = Gather(tasks)
    /\ UNCHANGED <<webhooks_db, webhooks, trigTool, tasks>>
    /\ UNCHANGED <<logVars, readVars, tailVars, callVars>>

\* registrations the dispatcher is exercised with
DispatchUrls == {"u1"}
DispatchSecrets == {NULL}

NextDispatch ==
    \/ \E url \in DispatchUrls, tool_name \in HookScopes, secret \in DispatchSecrets :
           AddWebhook(url, tool_name, secret)
    \/ \E url \in DispatchUrls, tool_name \in HookScopes : RemoveWebhook(url, tool_name)
    \/ \E tool_name \in EventTools : Trigger(tool_name)
    \/ \E i \in 1..MaxHooks : SendAttempt(i)
    \/ \E i \in 1..MaxHooks, response \in Responses : AttemptDone(i, response)
    \/ TriggerReturn

SpecDispatch == Init /\ [][NextDispatch]_vars

\* a step of some delivery: an attempt starts, or its POST ends
DeliveryStep ==
    \/ \E i \in 1..MaxHooks : SendAttempt(i)
    \/ \E i \in 1..MaxHooks, response \in Responses : AttemptDone(i, response)

\* One manager that registers webhooks and triggers events of one tool
NextDeliver ==
    \/ \E url \in DispatchUrls, tool_name \in HookScopes, secret \in DispatchSecrets :
           AddWebhook(url, tool_name, secret)
    \/ Trigger("calc")
    \/ DeliveryStep
    \/ TriggerReturn

SpecDeliver == Init /\ [][NextDeliver]_vars

\* The dispatcher under the event loop's scheduling: a delivery that can
\* take a step is run (asyncio.gather makes every coroutine a task,
\* webhooks.py:133-136), every POST ends in a response or an exception (the
\* client has a timeout, webhooks.py:22), and trigger is resumed once gather
\* is done
FairSpecDeliver ==
    SpecDeliver /\ WF_vars(DeliveryStep) /\ WF_vars(TriggerReturn)

\* ------------------------------------------------- the request of an attempt
\* secrets a registration is stored with: none (NULL), the empty string, two
\* keys
SignSecrets == {NULL, "", "s1", "s2"}
SignEvents == {"tool.call", "tool.success", "tool.error"}
\* the data of an event: plain ASCII, or holding a character outside ASCII
SignData == {"ascii", "non_ascii"}
\* the httpx release installed: the repository pins none
HttpxReleases == {"before_0_28", "from_0_28"}

\* the payload trigger builds (webhooks.py:119-124)
Payload(event_type, tool_name, t, data) ==
    [event |-> event_type, tool |-> tool_name, timestamp |-> IsoFormat(t),
     data |-> data]

\* The bytes of a JSON text of a four-key payload: they depend on the value,
\* on the separators written between items and after keys, and, for a value
\* holding a non-ASCII character, on whether it is escaped (\uXXXX) or
\* written in UTF-8
JsonBytes(payload, item_separator, key_separator, ensure_ascii) ==
    [value |-> payload,
     item_separator |-> item_separator,
     key_separator |-> key_separator,
     non_ascii |-> IF payload.data # "non_ascii" THEN "none"
                   ELSE IF ensure_ascii THEN "escaped" ELSE "utf8"]

\* json.dumps(payload).encode() with the defaults of json.dumps
\* (webhooks.py:111)
DumpsEncode(payload) == JsonBytes(payload, ", ", ": ", TRUE)

\* The body httpx builds for `json=payload` (webhooks.py:149-153): up to
\* release 0.27 json.dumps(payload).encode("utf-8"), from release 0.28 on the
\* compact form json.dumps(payload, ensure_ascii=False, separators=(",", ":"))
HttpxEncodeJson(payload, release) ==
    IF release = "before_0_28"
    THEN JsonBytes(payload, ", ", ": ", TRUE)
    ELSE JsonBytes(payload, ",", ":", FALSE)

\* hmac.new(key, message, hashlib.sha256).hexdigest(): 64 lowercase hex
\* digits, different for different keys or messages
HmacSha256Hex(key, message) ==
    [kind |-> "hexdigest", key |-> key, message |-> message]

\* the None _sign_payload returns
NoSignature == [kind |-> "None"]

\* _sign_payload (webhooks.py:103-112)
sign_payload(payload, secret) ==
    IF secret \in {NULL, ""} THEN NoSignature
    ELSE HmacSha256Hex(secret, DumpsEncode(payload))

\* headers that carry a signature entry whatever _sign_payload returned
HeadersAlwaysSigned(signature) ==
    [ContentType |-> "application/json", XB2ASignature |-> signature]

\* the headers of an attempt (webhooks.py:141-147): `if signature:` holds for
\* a hexdigest, which is never empty, and not for None
Headers(signature) ==
    IF signature # NoSignature
    THEN [ContentType |-> "application/json", XB2ASignature |-> signature]
    ELSE [ContentType |-> "application/json"]

\* the POST of one attempt (webhooks.py:141-153)
Request(config, payload, release) ==
    [url |-> config.url,
     headers |-> Headers(sign_payload(payload, config.secret)),
     body |-> HttpxEncodeJson(payload, release)]

\* the receiver's check of a signed delivery (tests/webhook_server.py:13-16)
verify_signature(body, signature, secret) ==
    signature = HmacSha256Hex(secret, body)

\* one attempt of a delivery to a registration, as far as its POST
PostAttempt(config, payload, release) ==
    /\ lastRead' = [op |-> "post", config |-> config, payload |-> payload,
                    request |-> Request(config, payload, release)]
    /\ UNCHANGED <<logVars, tailVars, hookVars, callVars>>

NextSign ==
    \E url \in Urls, tool_name \in HookScopes, secret \in SignSecrets,
       event_type \in SignEvents, data \in SignData, release \in HttpxReleases :
        PostAttempt([url |-> url, tool_name |-> tool_name, secret |-> secret,
                     retries |-> DefaultRetries],
                    Payload(event_type, "calc", now, data), release)

SpecSign == Init /\ [][NextSign]_vars

\* ------------------------------------- managers that share the webhook store
\* `webhooks` is the view of the long-lived manager that dispatches (the
\* webhook_manager the tool wrappers call trigger on, decorators.py:18-19);
\* each CLI command builds a WebhookManager of its own on the same
\* webhooks.db, uses it once and exits.

\* `toolkit webhook add` (cli.py:255-271): the command's manager commits the
\* registration and reloads its own view
WebhookAddCmd(url, tool_name, secret) ==
    /\ Len(InsertOrReplace(webhooks_db, url, tool_name, secret)) <= MaxHooks
    /\ webhooks_db' = InsertOrReplace(webhooks_db, url, tool_name, secret)
    /\ UNCHANGED <<webhooks, trigPc, trigTool, tasks>>
    /\ UNCHANGED <<logVars, readVars, tailVars, callVars>>

\* `toolkit webhook remove` (cli.py:294-305)
WebhookRemoveCmd(url, tool_name) ==
    /\ webhooks_db' = DeleteWebhook(webhooks_db, url, tool_name)
    /\ UNCHANGED <<webhooks, trigPc, trigTool, tasks>>
    /\ UNCHANGED <<logVars, readVars, tailVars, callVars>>

\* `toolkit webhook list` (cli.py:273-292): a manager constructed now loads
\* the table (webhooks.py:29-30) and lists its view
webhook_list(db) == list_webhooks(load_webhooks(db))

\* the registration store under its own manager and a manager of a
\* `toolkit webhook remove` command
NextRegistry ==
    \/ \E url \in Urls, tool_name \in HookScopes, secret \in Secrets :
           AddWebhook(url, tool_name, secret)
    \/ \E url \in Urls, tool_name \in HookScopes : RemoveWebhook(url, tool_name)
    \/ \E url \in Urls, tool_name \in HookScopes : WebhookRemoveCmd(url, tool_name)

SpecRegistry == Init /\ [][NextRegistry]_vars

NextManagers ==
    \/ NextDispatch
    \/ \E url \in DispatchUrls, tool_name \in HookScopes, secret \in DispatchSecrets :
           WebhookAddCmd(url, tool_name, secret)
    \/ \E url \in DispatchUrls, tool_name \in HookScopes : WebhookRemoveCmd(url, tool_name)

SpecManagers == Init /\ [][NextManagers]_vars

\* ------------------------------------- tool calls and their webhook events
\* the parameters of ToolLogger.log_call, and those without a default
\* (logging.py:80-89)
LogCallParams == {"call_id", "tool_name", "inputs", "outputs", "start_time",
                  "error", "agent_metadata"}
LogCallRequired == {"call_id", "tool_name", "inputs", "outputs", "start_time"}

\* Python's binding of the keyword arguments of a log_call call: a keyword
\* the signature lacks, or a required parameter left out, raises TypeError
\* before the body runs
BindArguments(given) ==
    IF given \subseteq LogCallParams /\ LogCallRequired \subseteq given
    THEN "bound" ELSE "TypeError"

\* the keywords of the log_call calls of the define_tool wrapper
\* (decorators.py:31-37, 58-64) and of run_tool (server.py:46-52, 59-65)
WrapperSuccessKeywords ==
    {"tool_name", "inputs", "outputs", "duration_ms", "agent_metadata"}
WrapperErrorKeywords ==
    {"tool_name", "inputs", "error", "duration_ms", "agent_metadata"}
RunToolSuccessKeywords ==
    {"tool_name", "inputs", "outputs", "duration_ms", "agent_metadata"}
RunToolErrorKeywords ==
    {"tool_name", "inputs", "error", "duration_ms", "agent_metadata"}

\* The wrapper from the end of the tool function on (decorators.py:25-77):
\* log the call, trigger tool.success and return; an exception of the
\* function or of that log_call reaches the except clause, which logs the
\* call, triggers tool.error and re-raises, unless its own log_call raises.
\* `events` are the trigger() calls made, `logged` whether a log_call ran.
wrapper_finish(tool, outcome, hasManager) ==
    LET Event(e) == IF hasManager THEN <<[event |-> e, tool |-> tool]>> ELSE <<>>
    IN IF outcome # "raise" /\ BindArguments(WrapperSuccessKeywords) = "bound"
       THEN [status |-> "returned", logged |-> TRUE, events |-> Event("tool.success")]
       ELSE IF BindArguments(WrapperErrorKeywords) = "bound"
       THEN [status |-> "raised", logged |-> TRUE, events |-> Event("tool.error")]
       ELSE [status |-> "TypeError", logged |-> FALSE, events |-> <<>>]

\* The wrapper is called (decorators.py:11-22): with a webhook_manager on its
\* first argument it triggers tool.call and awaits the deliveries
WrapperEnter(tool, hasManager) ==
    /\ wrapPc.at \in {"idle", "returned", "raised", "TypeError"}
    /\ IF hasManager
       THEN /\ trigPc \in {"idle", "returned", "raised"}
            /\ Len(triggered) < MaxCalls
            /\ triggered' = Append(triggered, [event |-> "tool.call", tool |-> tool])
            /\ trigPc' = "gathering"
            /\ trigTool' = tool
            /\ tasks' = LET m == MatchingHooks(webhooks, tool)
                        IN [k \in 1..Len(m) |-> NewTask(m[k])]
            /\ wrapPc' = [at |-> "pre", tool |-> tool, hasManager |-> hasManager]
       ELSE /\ wrapPc' = [at |-> "func", tool |-> tool, hasManager |-> hasManager]
            /\ UNCHANGED <<triggered, trigPc, trigTool, tasks>>
    /\ UNCHANGED <<webhooks_db, webhooks>>
    /\ UNCHANGED <<logVars, readVars, tailVars>>

\* the awaited trigger has returned: the wrapper awaits the tool function
\* (decorators.py:25)
WrapperResume ==
    /\ wrapPc.at = "pre"
    /\ trigPc = "returned"
    /\ wrapPc' = [wrapPc EXCEPT !.at = "func"]
    /\ UNCHANGED <<triggered, hookVars>>
    /\ UNCHANGED <<logVars, readVars, tailVars>>

\* the tool function has returned or raised: the rest of the wrapper
WrapperFinish(outcome) ==
    /\ wrapPc.at = "func"
    /\ LET r == wrapper_finish(wrapPc.tool, outcome, wrapPc.hasManager)
       IN /\ wrapPc' = [wrapPc EXCEPT !.at = r.status]
          /\ triggered' = triggered \o r.events
          /\ lastRead' = [op |-> "define_tool", tool |-> wrapPc.tool,
                          outcome |-> outcome, status |-> r.status,
                          logged |-> r.logged]
    /\ UNCHANGED <<logVars, tailVars, hookVars>>

\* The rest of run_tool once the tool function has ended (server.py:40-66):
\* Tool.execute logs the call and returns or re-raises (core.py:65-94), then
\* run_tool makes a log_call of its own and answers; an exception of execute
\* or of that log_call reaches the except clause, whose log_call comes before
\* the HTTPException.  run_tool calls no trigger.
RunTool(c, outcome, writeOk) ==
    /\ c \in running
    /\ LET r == IF outcome = "raise"
                THEN ExecuteRaised(tool_calls, c, writeOk)
                ELSE ExecuteReturned(tool_calls, c, outcome, writeOk)
           executeRaised ==
               outcome = "raise" \/ \E st \in r.statuses : st.status = "raised"
           status ==
               IF ~executeRaised /\ BindArguments(RunToolSuccessKeywords) = "bound"
               THEN "200"
               ELSE IF BindArguments(RunToolErrorKeywords) = "bound"
               THEN "HTTPException"
               ELSE "TypeError"
       IN /\ tool_calls' = r.db
          /\ logStatus' = r.statuses
          /\ owed' = owed \cup NewlyOwed(tool_calls, r.db)
          /\ lastRead' = [op |-> "run_tool", call_id |-> c.call_id,
                          outcome |-> outcome, status |-> status]
    /\ running' = running \ {c}
    /\ UNCHANGED <<now, nextId>>
    /\ UNCHANGED <<tailPc, tailFilter, last_timestamp, pending,
                   yielded, subLen, polledLen, tailConn>>
    /\ UNCHANGED <<hookVars, callVars>>

\* how the deliveries of the wrapper's trigger are exercised
CallResponses == {"2xx"}

\* what the tool function of a call does: return a mapping, return a value
\* json cannot serialise, or raise
CallOutcomes == {"dict1", "obj", "raise"}

NextCalls ==
    \/ \E url \in DispatchUrls, tool_name \in HookScopes, secret \in DispatchSecrets :
           AddWebhook(url, tool_name, secret)
    \/ \E tool \in LogTools, inputs \in InputVals : ExecuteStart(tool, inputs)
    \/ \E c \in running, outcome \in CallOutcomes, writeOk \in BOOLEAN :
           ExecuteFinish(c, outcome, writeOk)
    \/ \E c \in running, outcome \in CallOutcomes, writeOk \in BOOLEAN :
           RunTool(c, outcome, writeOk)
    \/ \E tool \in LogTools, hasManager \in BOOLEAN : WrapperEnter(tool, hasManager)
    \/ WrapperResume
    \/ \E outcome \in CallOutcomes : WrapperFinish(outcome)
    \/ \E i \in 1..MaxHooks : SendAttempt(i)
    \/ \E i \in 1..MaxHooks, response \in CallResponses : AttemptDone(i, response)
    \/ TriggerReturn

SpecCalls == Init /\ [][NextCalls]_vars

Next ==
    \/ NextLog \/ NextTailFaults \/ NextStore \/ NextApi \/ NextReplay \/ NextCompare \/ NextHooks
    \/ NextManagers \/ NextRegistry \/ NextCalls \/ NextSign

Spec == Init /\ [][Next]_vars

\* ===================================================================== claims
YieldedIds == {yielded[k].call_id : k \in 1..Len(yielded)}
Subscribed == tailPc \in {"wait", "rows", "yield"}
MatchesTail(row) == tailFilter = PyNone \/ row.tool_name = tailFilter
\* position of a stored call in commit order
CommitIndex(id) == CHOOSE i \in 1..Len(tool_calls) : tool_calls[i].call_id = id

\* C1: the call log is append-only: every step of every operation (log_call
\* through Tool.execute, get_logs, get_call, replay_call, watch_logs, store
\* re-initialisation) leaves each stored row stored, at its place, with every
\* field unchanged.
C1_AppendOnly ==
    [][\A i \in 1..Len(tool_calls) :
          i <= Len(tool_calls') /\ tool_calls'[i] = tool_calls[i]]_vars

\* the store has just been re-initialised while it held two records, one of
\* which a tail had yielded
C1_Witness ==
    /\ Len(tool_calls) = 2
    /\ lastRead.op = "init_db"
    /\ yielded # <<>>

\* C2: whenever log_call returns normally, the record with that call_id is in
\* the store; a failed write is never a normal return with nothing stored.
C2_StoredOrRaised ==
    \A st \in logStatus :
        st.status = "returned" => st.call_id \in RowIds(tool_calls)

\* C3: for a tail subscribed when the store held r1..rn with strictly
\* increasing timestamps, and r(n+1) committed afterwards with a greater
\* timestamp (and matching the tail's filter): the tail never yields any of
\* r1..rn, yields r(n+1) at most once, the first poll after the insert fetches
\* r(n+1), and the batch of that poll does not end without yielding it.
C3_TailYieldsNextRecordOnce ==
    (Subscribed /\ \A i \in 1..(subLen - 1) :
                      TextLess(tool_calls[i].timestamp, tool_calls[i + 1].timestamp))
    => /\ \A i \in 1..subLen : tool_calls[i].call_id \notin YieldedIds
       /\ (/\ Len(tool_calls) > subLen
           /\ MatchesTail(tool_calls[subLen + 1])
           /\ \A i \in 1..subLen :
                  TextLess(tool_calls[i].timestamp, tool_calls[subLen + 1].timestamp))
          => LET r == tool_calls[subLen + 1]
             IN /\ Cardinality({k \in 1..Len(yielded) :
                                   yielded[k].call_id = r.call_id}) <= 1
                /\ polledLen > subLen =>
                       \/ r.call_id \in YieldedIds
                       \/ \E k \in 1..Len(pending) : pending[k] = r
                /\ (polledLen > subLen /\ tailPc = "wait") =>
                       r.call_id \in YieldedIds

\* r1 was stored at subscription, r2 came later with a greater timestamp and
\* the tail has yielded it
C3_Witness ==
    /\ Subscribed
    /\ subLen = 1
    /\ Len(tool_calls) = 2
    /\ TextLess(tool_calls[1].timestamp, tool_calls[2].timestamp)
    /\ yielded = <<ToolCallLog(tool_calls[2])>>
    /\ tailPc = "wait"

\* C4: a running tail eventually yields every record matching its filter that
\* commits with a timestamp strictly greater than the tail's watermark at the
\* moment of the commit.
C4_TailYieldsEveryOwed ==
    \A id \in 1..MaxCalls : (id \in owed) ~> (id \in YieldedIds)

\* C5: the timestamps of the records one tail yields are non-decreasing in
\* yield order.
C5_YieldedNonDecreasing ==
    \A k \in 1..(Len(yielded) - 1) :
        yielded[k].timestamp <= yielded[k + 1].timestamp

\* two records yielded by two polls, the one committed later (but started
\* earlier than the tail's next poll saw) second
C5_Witness ==
    /\ Len(yielded) = 2
    /\ yielded[1].timestamp < yielded[2].timestamp
    /\ CommitIndex(yielded[1].call_id) > CommitIndex(yielded[2].call_id)

\* C6 (as claimed): whenever record a commits before record b and one tail
\* yields both, it yields a before b.
C6_YieldedInCommitOrder ==
    \A k, l \in 1..Len(yielded) :
        CommitIndex(yielded[k].call_id) < CommitIndex(yielded[l].call_id) => k < l

\* C6 (amended): whenever record a commits before record b, a's timestamp is
\* smaller than b's and one tail yields both, it yields a before b.
C6_YieldedInCommitOrderWhenTimestampsAgree ==
    \A k, l \in 1..Len(yielded) :
        (/\ CommitIndex(yielded[k].call_id) < CommitIndex(yielded[l].call_id)
         /\ yielded[k].timestamp < yielded[l].timestamp) => k < l

\* a tail has yielded two records in their commit order
C6_Witness ==
    /\ Len(yielded) = 2
    /\ CommitIndex(yielded[1].call_id) < CommitIndex(yielded[2].call_id)
    /\ yielded[1].timestamp < yielded[2].timestamp

\* C7: the registration store holds at most one entry per (url, tool_name)
\* pair, tool-scoped or global (tool_name absent) alike, and so does
\* list_webhooks.
C7_OneEntryPerPair ==
    /\ \A i, j \in 1..Len(webhooks_db) :
           (webhooks_db[i].url = webhooks_db[j].url
            /\ webhooks_db[i].tool_name = webhooks_db[j].tool_name) => i = j
    /\ \A i, j \in 1..Len(list_webhooks(webhooks)) :
           (list_webhooks(webhooks)[i].url = list_webhooks(webhooks)[j].url
            /\ list_webhooks(webhooks)[i].tool_name = list_webhooks(webhooks)[j].tool_name)
           => i = j

AllFail(rs) == \A k \in 1..Len(rs) : rs[k] = "fail"
\* a delivery that has settled: one success, its last attempt, or exactly
\* `retries` failed attempts
Settled(t) ==
    /\ t.st = "done"
    /\ \/ (t.results # <<>> /\ t.results[Len(t.results)] = "ok")
       \/ (AllFail(t.results) /\ Len(t.results) = t.config.retries)

\* C8: for one trigger and one matching registration the dispatcher makes at
\* most `retries` attempts, none after the first successful one, and exactly
\* `retries` when every attempt fails.
C8_AttemptBudget ==
    \A i \in 1..Len(tasks) :
        LET t == tasks[i]
            started == Len(t.results) + (IF t.st = "inflight" THEN 1 ELSE 0)
        IN /\ started <= t.config.retries
           /\ \A k \in 1..Len(t.results) :
                  t.results[k] = "ok" => (k = Len(t.results) /\ t.st = "done")
           /\ (t.st = "done" /\ AllFail(t.results)) =>
                  Len(t.results) = t.config.retries

\* one delivery used up its budget, another succeeded at its second attempt
C8_Witness ==
    \E i, j \in 1..Len(tasks) :
        /\ tasks[i].results = <<"fail", "fail", "fail">>
        /\ tasks[i].st = "done"
        /\ tasks[j].results = <<"fail", "ok">>
        /\ tasks[j].st = "done"

\* C9: delivery failures are isolated per registration: no delivery and no
\* trigger ever raises, a delivery stops only on its own success or its own
\* exhausted budget, and a trigger that has returned leaves every matched
\* registration settled in that way.
C9_FailuresIsolated ==
    /\ trigPc # "raised"
    /\ \A i \in 1..Len(tasks) :
           /\ tasks[i].st # "raised"
           /\ tasks[i].st = "done" => Settled(tasks[i])
    /\ trigPc = "returned" => \A i \in 1..Len(tasks) : Settled(tasks[i])

\* a trigger returned normally after one registration exhausted its retries
\* and a sibling was delivered
C9_Witness ==
    /\ trigPc = "returned"
    /\ \E i, j \in 1..Len(tasks) :
           /\ AllFail(tasks[i].results) /\ Len(tasks[i].results) = DefaultRetries
           /\ tasks[j].results = <<"ok">>

\* C10: at the moment trigger returns every matched registration has one
\* successful attempt or exactly `retries` failed ones, none is in flight, and
\* no attempt of that trigger starts afterwards.
C10_ReturnsWhenAllSettled ==
    /\ [](trigPc = "returned" => \A i \in 1..Len(tasks) : Settled(tasks[i]))
    /\ [][(trigPc = "returned" /\ trigPc' = "returned") => tasks' = tasks]_vars

\* a trigger with three deliveries has returned, one of them exhausted
C10_Witness ==
    /\ trigPc = "returned"
    /\ Len(tasks) = 3
    /\ \E i \in 1..Len(tasks) : tasks[i].results = <<"fail", "fail", "fail">>
    /\ \E i \in 1..Len(tasks) : tasks[i].results = <<"fail", "fail", "ok">>

\* number of entries of a sequence equal to w
CountOf(q, w) == Cardinality({k \in 1..Len(q) : q[k] = w})
TaskConfigs(ts) == [k \in 1..Len(ts) |-> ts[k].config]

\* C11: a trigger for tool t starts one delivery per registration of the
\* manager's view whose tool_name is absent or equals t and none for any
\* other registration; no delivery ever belongs to a registration that does
\* not match the event's tool; and when the trigger returns, every delivery it
\* started has made at least one attempt.
C11_DeliversToMatchingOnly ==
    /\ [][(trigPc # "gathering" /\ trigPc' = "gathering") =>
              \A k \in 1..Len(webhooks) :
                  CountOf(TaskConfigs(tasks'), webhooks[k]) =
                      IF webhooks[k].tool_name \in {NULL, trigTool'}
                      THEN CountOf(webhooks, webhooks[k]) ELSE 0]_vars
    /\ [](\A i \in 1..Len(tasks) : tasks[i].config.tool_name \in {NULL, trigTool})
    /\ [](trigPc = "returned" => \A i \in 1..Len(tasks) : Len(tasks[i].results) >= 1)

\* with a global registration and one scoped to "calc" in the view, a trigger
\* for "other" has returned after delivering to the global one only
C11_Witness ==
    /\ trigPc = "returned"
    /\ trigTool = "other"
    /\ \E k \in 1..Len(webhooks) : webhooks[k].tool_name = NULL
    /\ \E k \in 1..Len(webhooks) : webhooks[k].tool_name = "calc"
    /\ Len(tasks) = 1
    /\ tasks[1].config.tool_name = NULL
    /\ tasks[1].results # <<>>

\* C12: at every moment, hence after every committed add or remove by any
\* manager on the store, the long-lived manager lists exactly the
\* registrations a manager loading the store now lists, and a trigger on it
\* for any tool would match exactly the registrations of the store that match.
C12_ReadersSeeCommitted ==
    /\ list_webhooks(webhooks) = webhook_list(webhooks_db)
    /\ \A t \in EventTools :
           MatchingHooks(webhooks, t) = MatchingHooks(load_webhooks(webhooks_db), t)

\* the stored call a replay was asked for, and what the replay returned
ReplayedCall == get_call(tool_calls, lastRead.call_id)

\* C13: a replay of a stored call whose tool the registry resolves ends
\* normally whatever the tool function does (returns, raises, is a plain
\* function): it returns an outcome holding original_call (the stored call),
\* a completion timestamp, and exactly one of replay_result and replay_error.
C13_ReplayNeverRaises ==
    lastRead.op = "replay_call" =>
        ((ReplayedCall.status = "ok" /\ ReplayedCall.tool \in lastRead.registry) =>
            /\ lastRead.result.status = "ok"
            /\ {"original_call", "timestamp"} \subseteq DOMAIN lastRead.result
            /\ lastRead.result.original_call = ReplayedCall
            /\ lastRead.result.timestamp = now
            /\ ("replay_result" \in DOMAIN lastRead.result)
                   # ("replay_error" \in DOMAIN lastRead.result))

\* the replay of a successful call of the plain-function tool returned an
\* outcome carrying replay_error
C13_Witness ==
    /\ lastRead.op = "replay_call"
    /\ lastRead.result.status = "ok"
    /\ lastRead.result.original_call.tool = "sync"
    /\ lastRead.result.original_call.outputs = "dict1"
    /\ "replay_error" \in DOMAIN lastRead.result

\* C14: a replay of a call_id no record has fails with FileNotFoundError
\* whatever the registry holds; a replay of a stored call whose tool the
\* registry does not resolve fails with ValueError; in both cases the tool
\* function is not called.
C14_MissingCallOrTool ==
    lastRead.op = "replay_call" =>
        /\ lastRead.call_id \notin RowIds(tool_calls) =>
               (lastRead.result.status = "FileNotFoundError" /\ ~lastRead.result.invoked)
        /\ (/\ lastRead.call_id \in RowIds(tool_calls)
            /\ ReplayedCall.tool \notin lastRead.registry) =>
               (lastRead.result.status = "ValueError" /\ ~lastRead.result.invoked)

\* a stored call of "const" was replayed against a registry holding every
\* tool but "const"
C14_Witness ==
    /\ lastRead.op = "replay_call"
    /\ lastRead.call_id \in RowIds(tool_calls)
    /\ ReplayedCall.tool = "const"
    /\ lastRead.registry = ReplayTools \ {"const"}
    /\ lastRead.result.status = "ValueError"

\* C15: the replay of a call that Tool.execute logged as a success of a
\* deterministic, side-effect-free tool, against the same tool code, returns
\* a replay_result that compare_outputs finds equal to the original outputs.
C15_ReplayMatchesOriginal ==
    lastRead.op = "replay_call" =>
        ((/\ ReplayedCall.status = "ok"
          /\ ReplayedCall.error = PyNone
          /\ ReplayedCall.tool \in lastRead.registry) =>
            /\ "replay_result" \in DOMAIN lastRead.result
            /\ compare_outputs(ReplayedCall.outputs, lastRead.result.replay_result))

\* an output value with its created_at field removed; an absent output
\* stays absent
WithoutCreatedAt(v) ==
    CASE v \in {"dict1_X", "dict1_Y"} -> "dict1"
      [] v = "dict2_Y" -> "dict2"
      [] v = "only_X" -> "empty"
      [] OTHER -> v

\* C16: for output values a and b (mappings or an absent output),
\* compare_outputs(a, b) is true exactly when a and b are equal once the
\* created_at field is removed from both; compare_outputs(a, a) is true and
\* compare_outputs(b, a) = compare_outputs(a, b).
C16_CompareIsEqualityModuloCreatedAt ==
    lastRead.op = "compare_outputs" =>
        /\ lastRead.result =
               (WithoutCreatedAt(lastRead.original_output)
                    = WithoutCreatedAt(lastRead.replay_output))
        /\ compare_outputs(lastRead.original_output, lastRead.original_output)
        /\ compare_outputs(lastRead.replay_output, lastRead.original_output)
               = lastRead.result

\* C19: every record stored for a tool execution has outputs set and error
\* absent when the tool function returned, and error set and outputs absent
\* when it raised; so exactly one of the two is set.
C19_ExactlyOneOfOutputsError ==
    \A i \in 1..Len(tool_calls) :
        IF FuncResult(tool_calls[i].tool_name, FromIsoFormat(tool_calls[i].timestamp)) = "raise"
        THEN tool_calls[i].error # NULL /\ tool_calls[i].outputs = NULL
        ELSE tool_calls[i].outputs # NULL /\ tool_calls[i].error = NULL

\* C17: when log_call(r) is followed at once by get_logs(tool_name =
\* r.tool_name, limit = 1), the query returns one record, equal to r in
\* call_id, tool_name, timestamp, inputs, outputs and error, whatever the
\* store held before and whatever r's start time.
C17_InsertThenQueryReturnsRecord ==
    [][(/\ lastRead.op = "log_call"
        /\ lastRead'.op = "get_logs"
        /\ lastRead'.tool_name = lastRead.tool_name
        /\ lastRead'.limit = 1) =>
           /\ Len(lastRead'.result) = 1
           /\ lastRead'.result[1] =
                  [call_id |-> lastRead.call_id,
                   tool_name |-> lastRead.tool_name,
                   timestamp |-> lastRead.start_time,
                   inputs |-> lastRead.inputs,
                   outputs |-> lastRead.outputs,
                   error |-> IF lastRead.error = NULL THEN PyNone
                             ELSE lastRead.error]]_vars

\* the stored rows a get_logs query with this filter is about
QueryMatches(t) ==
    {i \in 1..Len(tool_calls) : t = PyNone \/ tool_calls[i].tool_name = t}

\* C18: get_logs(tool_name, limit) returns at most limit records, each a
\* stored record, none twice, only records of tool_name when a filter is
\* given, in non-increasing timestamp order, as many as match up to limit,
\* and no matching record left out has a later timestamp than a returned one.
C18_MostRecentFirst ==
    lastRead.op = "get_logs" =>
        LET res == lastRead.result
            M == QueryMatches(lastRead.tool_name)
            Returned == {res[k].call_id : k \in 1..Len(res)}
        IN /\ Len(res) <= lastRead.limit
           /\ Len(res) = IF lastRead.limit < Cardinality(M)
                         THEN lastRead.limit ELSE Cardinality(M)
           /\ \A k \in 1..Len(res) :
                  \E i \in M : res[k] = ToolCallLog(tool_calls[i])
           /\ Cardinality(Returned) = Len(res)
           /\ lastRead.tool_name # PyNone =>
                  \A k \in 1..Len(res) : res[k].tool_name = lastRead.tool_name
           /\ \A k \in 1..(Len(res) - 1) : res[k].timestamp >= res[k + 1].timestamp
           /\ \A i \in M : tool_calls[i].call_id \notin Returned =>
                  \A k \in 1..Len(res) :
                      FromIsoFormat(tool_calls[i].timestamp) <= res[k].timestamp

\* the store holds two records of "calc", the one committed second being the
\* older; get_logs("calc", 1) returned the one committed first
C18_Witness ==
    /\ lastRead.op = "get_logs"
    /\ lastRead.tool_name = "calc"
    /\ lastRead.limit = 1
    /\ Len(tool_calls) = 2
    /\ tool_calls[1].tool_name = "calc"
    /\ tool_calls[2].tool_name = "calc"
    /\ TextLess(tool_calls[2].timestamp, tool_calls[1].timestamp)
    /\ lastRead.result = <<ToolCallLog(tool_calls[1])>>

\* C20: no two stored records ever share a call_id, and a log_call whose
\* call_id is already stored leaves the table, hence the stored record, as it
\* was.
C20_CallIdPrimaryKey ==
    /\ [](\A i, j \in 1..Len(tool_calls) :
               tool_calls[i].call_id = tool_calls[j].call_id => i = j)
    /\ [][(lastRead'.op = "log_call" /\ lastRead'.call_id \in RowIds(tool_calls))
              => tool_calls' = tool_calls]_vars

\* a log_call was made with the call_id of a stored record and another tool
\* name and start time; the stored record stands
C20_Witness ==
    /\ lastRead.op = "log_call"
    /\ Len(tool_calls) = 2
    /\ tool_calls[1].call_id = lastRead.call_id
    /\ tool_calls[1].tool_name # lastRead.tool_name
    /\ tool_calls[1].timestamp # IsoFormat(lastRead.start_time)

\* the event that announces a stored call
EventOf(row) == IF row.error = NULL THEN "tool.success" ELSE "tool.error"

\* C21: every tool call the executor has completed (Tool.execute called
\* directly or by run_tool, or the define_tool wrapper) is stored in the call
\* log and has been announced by a trigger for its event, tool.success or
\* tool.error, made after the insert.
C21_LoggedThenAnnounced ==
    /\ \A st \in logStatus :
           /\ st.call_id \in RowIds(tool_calls)
           /\ \E k \in 1..Len(triggered) :
                  triggered[k] = [event |-> EventOf(tool_calls[CommitIndex(st.call_id)]),
                                  tool |-> tool_calls[CommitIndex(st.call_id)].tool_name]
    /\ (lastRead.op = "define_tool" /\ wrapPc.hasManager) =>
           /\ lastRead.logged
           /\ \E k \in 1..Len(triggered) :
                  triggered[k] = [event |-> IF lastRead.outcome = "raise"
                                            THEN "tool.error" ELSE "tool.success",
                                  tool |-> lastRead.tool]

\* C22: an attempt carries the signature header exactly when its
\* registration has a secret (a non-empty string; a registration stored with
\* no secret or with the empty string has none): without one the headers have
\* no signature entry at all, with one the entry is a digest.
C22_SignatureHeaderIffSecret ==
    lastRead.op = "post" =>
        LET headers == lastRead.request.headers
        IN IF lastRead.config.secret \in {NULL, ""}
           THEN DOMAIN headers = {"ContentType"}
           ELSE /\ "XB2ASignature" \in DOMAIN headers
                /\ headers.XB2ASignature.kind = "hexdigest"

\* a tool.success event was posted to a registration stored without a
\* secret, with no signature header
C22_Witness ==
    /\ lastRead.op = "post"
    /\ lastRead.config.secret = NULL
    /\ lastRead.payload.event = "tool.success"
    /\ "XB2ASignature" \notin DOMAIN lastRead.request.headers

\* C23: the signature header of an attempt is the HMAC-SHA256 hexdigest,
\* keyed by the registration's secret, of the bytes sent as the body, so the
\* receiver's verify_signature over the raw body accepts it.
C23_SignatureOfBodyBytes ==
    (lastRead.op = "post" /\ "XB2ASignature" \in DOMAIN lastRead.request.headers) =>
        /\ lastRead.request.headers.XB2ASignature
               = HmacSha256Hex(lastRead.config.secret, lastRead.request.body)
        /\ verify_signature(lastRead.request.body,
                            lastRead.request.headers.XB2ASignature,
                            lastRead.config.secret)

\* a delivery that has not settled yet: it is about to attempt, or an attempt
\* of it is in flight
Unsettled(t) == t.st \in {"ready", "inflight"}

\* C24: while a trigger is gathering its deliveries, the first attempt of a
\* matching registration can start whenever that delivery is ready, whatever
\* state the deliveries to the other registrations are in (waiting for a slow
\* endpoint, between failed attempts): it never has to wait for another
\* delivery to settle.
C24_DeliveriesRunConcurrently ==
    \A i \in 1..Len(tasks) :
        (trigPc = "gathering" /\ tasks[i].st = "ready" /\ tasks[i].results = <<>>)
            => ENABLED SendAttempt(i)

\* the first attempt to the second registration is in flight while the
\* delivery to the first one, which has failed once already, is in flight too
C24_Witness ==
    /\ trigPc = "gathering"
    /\ Len(tasks) >= 2
    /\ tasks[1].st = "inflight"
    /\ tasks[1].results = <<"fail">>
    /\ tasks[2].st = "inflight"
    /\ tasks[2].results = <<>>

\* C25: a remove_webhook(url, tool_name), by the manager itself or by the
\* manager of a remove command, leaves no entry with that url and that
\* tool_name (absent for a global entry), keeps every other entry, those of
\* the same url and another scope included, with its fields and in its place
\* among the others, and changes nothing when there was no such entry.
C25_RemovesExactlyThePair ==
    [][\A url \in Urls, tool_name \in HookScopes :
          (RemoveWebhook(url, tool_name) \/ WebhookRemoveCmd(url, tool_name)) =>
              LET Hit(r) == r.url = url /\ r.tool_name = tool_name
                  Others(db) == {k \in 1..Len(db) : ~Hit(db[k])}
              IN /\ \A k \in 1..Len(webhooks_db') : ~Hit(webhooks_db'[k])
                 /\ Len(webhooks_db') = Cardinality(Others(webhooks_db))
                 /\ \A k \in Others(webhooks_db) :
                        webhooks_db'[Cardinality({j \in Others(webhooks_db) : j <= k})]
                            = webhooks_db[k]
                 /\ Others(webhooks_db) = 1..Len(webhooks_db) =>
                        webhooks_db' = webhooks_db]_vars

\* the manager's view still shows a global and a "calc" entry of u1 that it
\* loaded; a remove command has since deleted the global one from the store,
\* where the "calc" entry of u1 stands
C25_Witness ==
    /\ \E k \in 1..Len(webhooks) :
           webhooks[k].url = "u1" /\ webhooks[k].tool_name = NULL
    /\ \E k \in 1..Len(webhooks_db) :
           webhooks_db[k].url = "u1" /\ webhooks_db[k].tool_name = "calc"
    /\ \A k \in 1..Len(webhooks_db) :
           ~(webhooks_db[k].url = "u1" /\ webhooks_db[k].tool_name = NULL)
    /\ Len(webhooks_db) = Len(webhooks) - 1

\* C26: once the consumer has stopped the tail (closed the iterator, or
\* interrupted it), the generator is finished, and a finished tail never
\* polls the store, yields or moves again, whatever is committed afterwards.
C26_CancelStopsPolling ==
    /\ [](lastRead.op = "tail_cancel" => tailPc = "closed")
    /\ [][tailPc = "closed" =>
              UNCHANGED <<tailPc, polledLen, pending, yielded, last_timestamp>>]_vars

\* a tail that had yielded a record was closed, and a record committed after
\* its last poll stays unpolled
C26_Witness ==
    /\ tailPc = "closed"
    /\ yielded # <<>>
    /\ Len(tool_calls) > polledLen
    /\ lastRead.op = "none"

\* C27 (its safety part): after a storage failure of any read of the store by
\* the tail, the first read of MAX(timestamp) or a poll, the tail is still
\* running, about to poll again, with the watermark it had.
C27_ReadFailureKeepsTailRunning ==
    lastRead.op = "tail_error" =>
        /\ tailPc = "wait"
        /\ last_timestamp = lastRead.watermark

\* C28: the tail holds no open storage connection while it is suspended,
\* sleeping between polls or handing a yielded record to its consumer.
C28_NoConnectionWhileSuspended ==
    tailPc \in {"wait", "yield"} => tailConn # "open"

\* the stored rows a request for this tool and status is about
ApiMatches(tool, status) ==
    {i \in 1..Len(tool_calls) :
        /\ (tool = PyNone \/ tool_calls[i].tool_name = tool)
        /\ (status = "success" => tool_calls[i].error = NULL)
        /\ (status = "failure" => tool_calls[i].error # NULL)}

\* C29: a request to /api/logs with offset k and limit L returns the records
\* at positions k+1..k+L of a most-recent-first order of the records that
\* match its tool filter and its status filter, each serialised with its
\* timestamp as ISO text.
C29_ApiHonoursOffsetAndFilters ==
    lastRead.op = "api_logs" =>
        \E q \in OrderByTimestampDesc(tool_calls,
                                      ApiMatches(lastRead.tool, lastRead.status)) :
            LET rest == Len(q) - lastRead.offset
                n == IF rest < 0 THEN 0
                     ELSE IF rest < lastRead.limit THEN rest ELSE lastRead.limit
            IN lastRead.result =
                   [k \in 1..n |->
                       to_dict(ToolCallLog(tool_calls[q[lastRead.offset + k]]))]

\* C30: after compare_outputs(a, b) has returned, the caller's a and b hold
\* the keys and values they held before the call, created_at included.
C30_CompareLeavesArguments ==
    lastRead.op = "compare_outputs" =>
        /\ lastRead.arguments.original_output = lastRead.original_output
        /\ lastRead.arguments.replay_output = lastRead.replay_output

\* two outputs that differ in created_at only were found equal, and both
\* still carry their created_at
C30_Witness ==
    /\ lastRead.op = "compare_outputs"
    /\ lastRead.original_output = "dict1_X"
    /\ lastRead.replay_output = "dict1_Y"
    /\ lastRead.result
    /\ lastRead.arguments = [original_output |-> "dict1_X", replay_output |-> "dict1_Y"]

\* C31: a tail delivers each newly logged record exactly once: no record is
\* yielded twice, and once a poll that saw all the committed rows has finished
\* its batch, every record matching the filter that committed after the tail
\* started has been yielded, also one whose timestamp equals or precedes the
\* timestamp of a record the tail already yielded.
C31_TailDeliversEachNewRecordOnce ==
    /\ \A k, l \in 1..Len(yielded) :
           yielded[k].call_id = yielded[l].call_id => k = l
    /\ (Subscribed /\ tailPc = "wait" /\ polledLen = Len(tool_calls))
       => \A i \in (subLen + 1)..Len(tool_calls) :
              MatchesTail(tool_calls[i]) => tool_calls[i].call_id \in YieldedIds

\* C32: each invocation attempt of a tool adds exactly one row to the call
\* log, on success and on failure of the tool function: a Tool.execute that
\* ends (called directly or by run_tool) leaves exactly one row with its
\* call_id, and a call of the define_tool wrapper that ends has made the
\* table one row longer.
C32_OneRowPerAttempt ==
    [][/\ \A c \in running \ running' :
              Cardinality({i \in 1..Len(tool_calls') :
                              tool_calls'[i].call_id = c.call_id}) = 1
       /\ lastRead'.op = "define_tool" => Len(tool_calls') = Len(tool_calls) + 1]_vars

\* C35: a tool invocation whose function returns normally is reported to its
\* caller as a success: no log_call of Tool.execute raises into the call, and
\* run_tool answers 200 with the outputs whenever the function returned.
C35_SuccessReportedAsSuccess ==
    /\ \A st \in logStatus : st.status # "raised"
    /\ (lastRead.op = "run_tool" /\ lastRead.outcome # "raise")
       => lastRead.status = "200"

\* an output value with the created_at fields removed at every nesting depth
WithoutCreatedAtAnywhere(v) ==
    IF v \in NestedMappings THEN "nest" ELSE WithoutCreatedAt(v)

\* C33: compare_outputs ignores created_at fields at every nesting depth: two
\* mappings that are equal once every created_at field, top-level or inside a
\* nested mapping, is removed compare as equal.
C33_CompareIgnoresNestedCreatedAt ==
    (/\ lastRead.op = "compare_outputs"
     /\ lastRead.original_output # PyNone
     /\ lastRead.replay_output # PyNone
     /\ WithoutCreatedAtAnywhere(lastRead.original_output)
            = WithoutCreatedAtAnywhere(lastRead.replay_output))
    => lastRead.result

\* the registrations of a sequence of configs, as a set
ConfigSet(q) == {q[k] : k \in 1..Len(q)}

\* C34: the registrations a trigger delivers to are fixed when trigger is
\* called: while the trigger is gathering, its deliveries stay those of the
\* registrations matched at the call; a step that changes the webhooks table
\* (add_webhook, remove_webhook) leaves every delivery as it is; and the
\* trigger returns only when every delivery, also one to a registration
\* removed meanwhile, has succeeded or used up its retries.
C34_RegistrationsFixedAtTrigger ==
    /\ [][(trigPc = "gathering" /\ trigPc' = "gathering")
              => TaskConfigs(tasks') = TaskConfigs(tasks)]_vars
    /\ [][webhooks_db' # webhooks_db => (tasks' = tasks /\ trigPc' = trigPc)]_vars
    /\ [](trigPc = "returned" => \A i \in 1..Len(tasks) : Settled(tasks[i]))

\* a trigger for calc matched (u1, calc); that registration was removed and
\* a global one added while the delivery was retrying: the delivery is on
\* its third attempt and the new registration has no delivery
C34_Witness ==
    /\ trigPc = "gathering"
    /\ trigTool = "calc"
    /\ Len(tasks) = 1
    /\ tasks[1].st = "inflight"
    /\ tasks[1].results = <<"fail", "fail">>
    /\ tasks[1].config \notin ConfigSet(webhooks)
    /\ \E w \in ConfigSet(webhooks) :
           w.tool_name = NULL /\ w \notin ConfigSet(TaskConfigs(tasks))

\* C36: replay leaves the call log unchanged: a replay_call, whether it
\* returns a result, returns a replay error or fails with NotFound or
\* ToolNotFound, leaves the stored records as they were, and it calls the
\* resolved tool function at most once, with exactly the inputs stored in the
\* original record (and not at all when it fails).
C36_ReplayLeavesLogUnchanged ==
    /\ [][lastRead'.op = "replay_call" => tool_calls' = tool_calls]_vars
    /\ [](lastRead.op = "replay_call" =>
             /\ Len(lastRead.calls) <= 1
             /\ Len(lastRead.calls) = (IF lastRead.result.invoked THEN 1 ELSE 0)
             /\ \A k \in 1..Len(lastRead.calls) :
                    lastRead.calls[k] = JsonLoads(tool_calls[CommitIndex(lastRead.call_id)].inputs)
             /\ lastRead.result.status \in {"FileNotFoundError", "ValueError"}
                    => lastRead.calls = <<>>)

\* the one stored call was replayed and gave a result: the function was
\* called once with the stored inputs and the log still holds that one record
C36_Witness ==
    /\ lastRead.op = "replay_call"
    /\ "replay_result" \in DOMAIN lastRead.result
    /\ lastRead.calls = <<"in1">>
    /\ Len(tool_calls) = 1
    /\ tool_calls[1].call_id = lastRead.call_id
    /\ nextId = 1
    /\ running = {}

\* the attempts a delivery has started, and sums over the deliveries
Attempts(t) == Len(t.results) + (IF t.st = "inflight" THEN 1 ELSE 0)
RECURSIVE SumOf(_)
SumOf(q) == IF q = <<>> THEN 0 ELSE Head(q) + SumOf(Tail(q))
TotalAttempts == SumOf([k \in 1..Len(tasks) |-> Attempts(tasks[k])])
TotalBudget == SumOf([k \in 1..Len(tasks) |-> tasks[k].config.retries])

\* C37: trigger always terminates: when every attempt ends in a success or
\* a failure, a trigger that is gathering its deliveries eventually returns,
\* and the attempts it has started never exceed the sum of the retry budgets
\* of the registrations it matched.
C37_TriggerTerminates ==
    /\ (trigPc = "gathering") ~> (trigPc = "returned")
    /\ [](TotalAttempts <= TotalBudget)

\* a trigger with two deliveries returned after every attempt of both had
\* failed: the sum of the budgets in attempts
C37_Witness ==
    /\ trigPc = "returned"
    /\ Len(tasks) = 2
    /\ \A i \in 1..2 : AllFail(tasks[i].results)
    /\ TotalAttempts = TotalBudget
    /\ TotalBudget = 2 * DefaultRetries

====
